---- MODULE Spec2Model ----
(***************************************************************************)
(* Model of scripts/wake_streamlit.py: the command-line entry point main,  *)
(* the StreamlitWakeUp context manager (__enter__/__exit__), the per-URL   *)
(* prober wake_up_app and the sequential driver wake_up_multiple_apps.     *)
(*                                                                         *)
(* Every call into the browser automation library is one step whose        *)
(* outcome is chosen by the environment: it returns, or it raises a        *)
(* PlaywrightTimeoutError, another Exception, or is cut by a               *)
(* KeyboardInterrupt.  Strings are sequences of one-character strings.     *)
(* response_time is a wall-clock measurement and is not modelled.          *)
(***************************************************************************)
EXTENDS Integers, Sequences, FiniteSets, TLC

\* ---------------------------------------------------------------- bounds
MaxUrls == 2
MaxArgs == 2
MaxHostLen == 1

\* ------------------------------------------------------ program constants
NumWakeSelectors == 8
NumIndicators == 4

\* ------------------------------------------------------------ input sets
TimeoutChoices == {1, 30}
ErrTexts == {"e1", "e2"}
HostChars == {"a", "."}

HTTP == <<"h", "t", "t", "p", ":", "/", "/">>
HTTPS == <<"h", "t", "t", "p", "s", ":", "/", "/">>

Prefixes ==
  { <<>>, HTTP, HTTPS,
    <<"h", "t", "t", "p">>,
    <<"h", "t", "t", "p", "s", ":", "/">>,
    <<"H", "T", "T", "P", ":", "/", "/">>,
    <<"f", "t", "p", ":", "/", "/">> }

Hosts == UNION { [1..k -> HostChars] : k \in 0..MaxHostLen }

UrlStrings == { p \o h : p \in Prefixes, h \in Hosts }

MainUrls == { <<"a">>, HTTPS \o <<"b">> }

ListsUpTo(S, n) == UNION { [1..k -> S] : k \in 1..n }

\* ------------------------------------------------------------ exceptions
NoExc == [type |-> "none", text |-> ""]
SystemExit == [type |-> "SystemExit", text |-> ""]
KeyboardInterrupt == [type |-> "KeyboardInterrupt", text |-> ""]
PlaywrightTimeoutError == [type |-> "Timeout", text |-> ""]
Errors == { [type |-> "Error", text |-> t] : t \in ErrTexts }
Thrown == {PlaywrightTimeoutError, KeyboardInterrupt} \cup Errors

\* ----------------------------------------------------------------- state
VARIABLES
  args_urls, args_timeout, valid_urls,
  pc, exc, sysCode, exitCode,
  self_playwright, self_browser, engine, browserState, pagesOpen,
  i, results, delays, invoked, driverReturned,
  result, page, sel, ind, button_found,
  firstVisible, nClicks, matched, indProbed, indHit,
  caught, raisedInProbe, closeInvoked, closeFailed, callEnd, callExc,
  interrupted

vars ==
  << args_urls, args_timeout, valid_urls,
     pc, exc, sysCode, exitCode,
     self_playwright, self_browser, engine, browserState, pagesOpen,
     i, results, delays, invoked, driverReturned,
     result, page, sel, ind, button_found,
     firstVisible, nClicks, matched, indProbed, indHit,
     caught, raisedInProbe, closeInvoked, closeFailed, callEnd, callExc,
     interrupted >>

sessionVars == << self_playwright, self_browser, engine, browserState >>
driverVars == << i, results, delays, invoked, driverReturned >>
probeVars ==
  << result, page, sel, ind, button_found,
     firstVisible, nClicks, matched, indProbed, indHit,
     caught, raisedInProbe, closeInvoked, closeFailed, callEnd, callExc >>
frameVars ==
  << result, sel, ind, button_found,
     firstVisible, nClicks, matched, indProbed, indHit, caught,
     raisedInProbe >>
argVars == << args_urls, args_timeout, valid_urls >>

\* ------------------------------------------------------- pure functions
StartsWith(s, p) == Len(s) >= Len(p) /\ SubSeq(s, 1, Len(p)) = p

Normalize_AlwaysPrefix(url) == HTTPS \o url

Normalize(url) ==
  IF ~(StartsWith(url, HTTP) \/ StartsWith(url, HTTPS))
  THEN HTTPS \o url
  ELSE url

self_timeout == args_timeout * 1000

EmptyMessage == [kind |-> "", secs |-> 0, text |-> ""]

TimeoutMessage_Fixed(timeout) ==
  [kind |-> "Timeout after", secs |-> 30, text |-> "seconds"]

TimeoutMessage(timeout) ==
  [kind |-> "Timeout after", secs |-> timeout \div 1000, text |-> "seconds"]

ErrorMessage(e) == [kind |-> "Error", secs |-> 0, text |-> e.text]

InitialResult(url) ==
  [url |-> url, success |-> FALSE, status |-> "unknown",
   message |-> EmptyMessage]

WokenUp(r) ==
  [r EXCEPT !.success = TRUE, !.status = "woken_up",
            !.message = [kind |-> "Successfully clicked wake-up button",
                         secs |-> 0, text |-> ""]]

ClassifyNoButton_Swapped(r, app_running) ==
  IF app_running
  THEN [r EXCEPT !.status = "unclear",
                 !.message = [kind |-> "No wake-up button found, app status unclear",
                              secs |-> 0, text |-> ""]]
  ELSE [r EXCEPT !.success = TRUE, !.status = "already_awake",
                 !.message = [kind |-> "App is already running",
                              secs |-> 0, text |-> ""]]

ClassifyNoButton(r, app_running) ==
  IF app_running
  THEN [r EXCEPT !.success = TRUE, !.status = "already_awake",
                 !.message = [kind |-> "App is already running",
                              secs |-> 0, text |-> ""]]
  ELSE [r EXCEPT !.status = "unclear",
                 !.message = [kind |-> "No wake-up button found, app status unclear",
                              secs |-> 0, text |-> ""]]

AfterWakeLoop_AlwaysProbe(found) == "ind_visible"

AfterWakeLoop(found) == IF ~found THEN "ind_visible" ELSE "finally"

NeedsDelay_Inclusive(k, n) == k <= n

NeedsDelay(k, n) == k < n

OkStatuses == {"woken_up", "already_awake"}

RECURSIVE FailedCount(_)
FailedCount(rs) ==
  IF rs = <<>> THEN 0
  ELSE (IF Head(rs).status \notin OkStatuses THEN 1 ELSE 0) + FailedCount(Tail(rs))

ExitCodeFor_AlwaysZero(rs) == 0

ExitCodeFor(rs) == IF FailedCount(rs) = 0 THEN 0 ELSE 1

ClosesPage_OnlyOnSuccess == page /\ result.status # "unknown"

ClosesPage == page

\* ------------------------------------------------------------------ Init
NoResult == InitialResult(<<>>)

InitWith(argLists) ==
  /\ args_urls \in argLists
  /\ args_timeout \in TimeoutChoices
  /\ valid_urls = <<>>
  /\ pc = "validate"
  /\ exc = NoExc
  /\ sysCode = 0
  /\ exitCode = -1
  /\ self_playwright = FALSE
  /\ self_browser = FALSE
  /\ engine = "none"
  /\ browserState = "none"
  /\ pagesOpen = 0
  /\ i = 0
  /\ results = <<>>
  /\ delays = 0
  /\ invoked = <<>>
  /\ driverReturned = FALSE
  /\ result = NoResult
  /\ page = FALSE
  /\ sel = 0
  /\ ind = 0
  /\ button_found = FALSE
  /\ firstVisible = 0
  /\ nClicks = 0
  /\ matched = 0
  /\ indProbed = 0
  /\ indHit = 0
  /\ caught = NoExc
  /\ raisedInProbe = FALSE
  /\ interrupted = FALSE
  /\ closeInvoked = FALSE
  /\ closeFailed = FALSE
  /\ callEnd = "none"
  /\ callExc = NoExc

Init == InitWith(ListsUpTo(MainUrls, MaxUrls))

InitNorm == InitWith(ListsUpTo(UrlStrings, MaxArgs))

\* ------------------------------------------------- main: URL validation
ValidateUrl ==
  /\ pc = "validate"
  /\ Len(valid_urls) < Len(args_urls)
  /\ valid_urls' = Append(valid_urls, Normalize(args_urls[Len(valid_urls) + 1]))
  /\ pc' = IF Len(valid_urls') = Len(args_urls) THEN "enter_start" ELSE "validate"
  /\ UNCHANGED << args_urls, args_timeout, exc, sysCode, exitCode >>
  /\ UNCHANGED << sessionVars, pagesOpen, driverVars, probeVars, interrupted >>

\* An exception raised by a call becomes the exception in flight.
Raise(e) ==
  /\ exc' = e
  /\ interrupted' = (interrupted \/ e.type = "KeyboardInterrupt")

\* ------------------------------------------------- __enter__
EnterStart ==
  /\ pc = "enter_start"
  /\ \/ /\ self_playwright' = TRUE
        /\ engine' = "running"
        /\ pc' = "enter_launch"
        /\ UNCHANGED << exc, interrupted >>
     \/ /\ \E e \in Thrown : Raise(e)
        /\ pc' = "handle"
        /\ UNCHANGED << self_playwright, engine >>
  /\ UNCHANGED << argVars, sysCode, exitCode, self_browser, browserState,
                  pagesOpen, driverVars, probeVars >>

EnterLaunch ==
  /\ pc = "enter_launch"
  /\ \/ /\ self_browser' = TRUE
        /\ browserState' = "open"
        /\ pc' = "loop"
        /\ UNCHANGED << exc, interrupted >>
     \/ /\ \E e \in Thrown : Raise(e)
        /\ pc' = "handle"
        /\ UNCHANGED << self_browser, browserState >>
  /\ UNCHANGED << argVars, sysCode, exitCode, self_playwright, engine,
                  pagesOpen, driverVars, probeVars >>

\* ------------------------------------------------- wake_up_multiple_apps
\* The locals of a wake_up_app call that has ended are gone with its frame.
FrameDiscarded ==
  /\ result' = NoResult
  /\ sel' = 0
  /\ ind' = 0
  /\ button_found' = FALSE
  /\ firstVisible' = 0
  /\ nClicks' = 0
  /\ matched' = 0
  /\ indProbed' = 0
  /\ indHit' = 0
  /\ caught' = NoExc
  /\ raisedInProbe' = FALSE

\* Loop head: the next URL is taken and wake_up_app is entered (its locals
\* are initialised, lines 68-77).
Invoke ==
  /\ pc = "loop"
  /\ i < Len(valid_urls)
  /\ i' = i + 1
  /\ invoked' = Append(invoked, valid_urls[i + 1])
  /\ result' = InitialResult(valid_urls[i + 1])
  /\ page' = FALSE
  /\ sel' = 0
  /\ ind' = 0
  /\ button_found' = FALSE
  /\ firstVisible' = 0
  /\ nClicks' = 0
  /\ matched' = 0
  /\ indProbed' = 0
  /\ indHit' = 0
  /\ caught' = NoExc
  /\ raisedInProbe' = FALSE
  /\ closeInvoked' = FALSE
  /\ closeFailed' = FALSE
  /\ callEnd' = "none"
  /\ callExc' = NoExc
  /\ pc' = "new_page"
  /\ UNCHANGED << argVars, exc, sysCode, exitCode, sessionVars, pagesOpen,
                  results, delays, driverReturned, interrupted >>

\* results.append(result), then time.sleep(2) when i < len(urls) (the sleep
\* can be cut by a KeyboardInterrupt); the loop goes on with the next URL
\* or, after the last one, ends and the list is returned.
Collect ==
  /\ pc = "collect"
  /\ results' = Append(results, result)
  /\ \/ /\ delays' = IF NeedsDelay(i, Len(valid_urls)) THEN delays + 1 ELSE delays
        /\ driverReturned' = ~(i < Len(valid_urls))
        /\ pc' = IF i < Len(valid_urls) THEN "loop" ELSE "summary"
        /\ UNCHANGED << exc, interrupted >>
     \/ /\ NeedsDelay(i, Len(valid_urls))
        /\ Raise(KeyboardInterrupt)
        /\ pc' = "exit_browser"
        /\ UNCHANGED << delays, driverReturned >>
  /\ FrameDiscarded
  /\ page' = FALSE
  /\ closeInvoked' = FALSE
  /\ closeFailed' = FALSE
  /\ callEnd' = "none"
  /\ callExc' = NoExc
  /\ UNCHANGED << argVars, sysCode, exitCode, sessionVars, pagesOpen,
                  i, invoked >>

\* ------------------------------------------------- wake_up_app
\* An exception leaving the outer try body: the two handlers record a
\* message and swallow it; a KeyboardInterrupt is not an Exception and stays
\* pending.  Control reaches the finally clause in every case.
OuterRaise(e) ==
  /\ pc' = "finally"
  /\ IF e.type = "Timeout"
     THEN /\ result' = [result EXCEPT !.message = TimeoutMessage(self_timeout)]
          /\ caught' = e
          /\ raisedInProbe' = TRUE
          /\ UNCHANGED << exc, interrupted >>
     ELSE IF e.type = "Error"
     THEN /\ result' = [result EXCEPT !.message = ErrorMessage(e)]
          /\ caught' = e
          /\ raisedInProbe' = TRUE
          /\ UNCHANGED << exc, interrupted >>
     ELSE /\ Raise(e)
          /\ UNCHANGED << result, caught, raisedInProbe >>

NewPage ==
  /\ pc = "new_page"
  /\ \/ /\ page' = TRUE
        /\ pagesOpen' = pagesOpen + 1
        /\ pc' = "set_timeout"
        /\ UNCHANGED << result, caught, raisedInProbe, exc, interrupted >>
     \/ /\ \E e \in Thrown : OuterRaise(e)
        /\ UNCHANGED << page, pagesOpen >>
  /\ UNCHANGED << argVars, sysCode, exitCode, sessionVars, driverVars,
                  sel, ind, button_found, firstVisible, nClicks, matched,
                  indProbed, indHit, closeInvoked, closeFailed, callEnd,
                  callExc >>

SetDefaultTimeout ==
  /\ pc = "set_timeout"
  /\ \/ /\ pc' = "goto"
        /\ UNCHANGED << result, caught, raisedInProbe, exc, interrupted >>
     \/ \E e \in Thrown : OuterRaise(e)
  /\ UNCHANGED << argVars, sysCode, exitCode, sessionVars, pagesOpen,
                  driverVars, page,
                  sel, ind, button_found, firstVisible, nClicks, matched,
                  indProbed, indHit, closeInvoked, closeFailed, callEnd,
                  callExc >>

Goto ==
  /\ pc = "goto"
  /\ \/ /\ pc' = "settle"
        /\ UNCHANGED << result, caught, raisedInProbe, exc, interrupted >>
     \/ \E e \in Thrown : OuterRaise(e)
  /\ UNCHANGED << argVars, sysCode, exitCode, sessionVars, pagesOpen,
                  driverVars, page,
                  sel, ind, button_found, firstVisible, nClicks, matched,
                  indProbed, indHit, closeInvoked, closeFailed, callEnd,
                  callExc >>

\* page.wait_for_timeout(3000); on return the wake-up selector loop starts.
Settle ==
  /\ pc = "settle"
  /\ \/ /\ pc' = "wake_visible"
        /\ sel' = 1
        /\ UNCHANGED << result, caught, raisedInProbe, exc, interrupted >>
     \/ /\ \E e \in Thrown : OuterRaise(e)
        /\ sel' = sel
  /\ UNCHANGED << argVars, sysCode, exitCode, sessionVars, pagesOpen,
                  driverVars, page,
                  ind, button_found, firstVisible, nClicks, matched,
                  indProbed, indHit, closeInvoked, closeFailed, callEnd,
                  callExc >>

\* `continue` in the wake-up selector loop: the next selector, or the end
\* of the loop with button_found still False.
WakeContinue ==
  IF sel < NumWakeSelectors
  THEN /\ sel' = sel + 1
       /\ pc' = "wake_visible"
       /\ ind' = ind
  ELSE /\ sel' = sel
       /\ pc' = AfterWakeLoop(button_found)
       /\ ind' = 1

\* A failure inside the per-selector try: PlaywrightTimeoutError and
\* Exception are swallowed (continue); KeyboardInterrupt leaves the loop and
\* the outer try, through the finally clause.
WakeRaise(e) ==
  IF e.type = "KeyboardInterrupt"
  THEN /\ Raise(e)
       /\ pc' = "finally"
       /\ UNCHANGED << sel, ind, raisedInProbe >>
  ELSE /\ raisedInProbe' = TRUE
       /\ UNCHANGED << exc, interrupted >>
       /\ WakeContinue

WakeIsVisible ==
  /\ pc = "wake_visible"
  /\ \/ /\ firstVisible' = IF firstVisible = 0 THEN sel ELSE firstVisible
        /\ pc' = "wake_click"
        /\ UNCHANGED << sel, ind, exc, interrupted, raisedInProbe >>
     \/ /\ WakeContinue
        /\ UNCHANGED << firstVisible, exc, interrupted, raisedInProbe >>
     \/ /\ \E e \in Thrown : WakeRaise(e)
        /\ firstVisible' = firstVisible
  /\ UNCHANGED << argVars, sysCode, exitCode, sessionVars, pagesOpen,
                  driverVars, result, page, button_found, nClicks, matched,
                  indProbed, indHit, caught, closeInvoked, closeFailed,
                  callEnd, callExc >>

WakeClick ==
  /\ pc = "wake_click"
  /\ \/ /\ nClicks' = nClicks + 1
        /\ pc' = "wake_wait"
        /\ UNCHANGED << sel, ind, exc, interrupted, raisedInProbe >>
     \/ /\ \E e \in Thrown : WakeRaise(e)
        /\ nClicks' = nClicks
  /\ UNCHANGED << argVars, sysCode, exitCode, sessionVars, pagesOpen,
                  driverVars, result, page, button_found, firstVisible,
                  matched, indProbed, indHit, caught, closeInvoked,
                  closeFailed, callEnd, callExc >>

\* page.wait_for_timeout(5000); on return the record is marked woken_up,
\* button_found is set and the loop is left by `break`.
WakeWait ==
  /\ pc = "wake_wait"
  /\ \/ /\ result' = WokenUp(result)
        /\ button_found' = TRUE
        /\ matched' = sel
        /\ pc' = AfterWakeLoop(TRUE)
        /\ ind' = IF AfterWakeLoop(TRUE) = "ind_visible" THEN 1 ELSE ind
        /\ UNCHANGED << sel, exc, interrupted, raisedInProbe >>
     \/ /\ \E e \in Thrown : WakeRaise(e)
        /\ UNCHANGED << result, button_found, matched >>
  /\ UNCHANGED << argVars, sysCode, exitCode, sessionVars, pagesOpen,
                  driverVars, page, firstVisible, nClicks,
                  indProbed, indHit, caught, closeInvoked, closeFailed,
                  callEnd, callExc >>

\* One is_visible call of the indicator loop.  A visible indicator sets
\* app_running and breaks; the bare `except:` swallows every failure, a
\* KeyboardInterrupt included.  The classification of lines 156-164 follows
\* the end of the loop in the same step.
IndIsVisible ==
  /\ pc = "ind_visible"
  /\ indProbed' = ind
  /\ \/ /\ indHit' = ind
        /\ result' = ClassifyNoButton(result, TRUE)
        /\ pc' = "finally"
        /\ ind' = ind
        /\ UNCHANGED << interrupted, raisedInProbe >>
     \/ /\ \E o \in {"not_visible"} \cup {e.type : e \in Thrown} :
             /\ interrupted' = (interrupted \/ o = "KeyboardInterrupt")
             /\ raisedInProbe' = (raisedInProbe \/ o \in {"Timeout", "Error"})
        /\ IF ind < NumIndicators
           THEN /\ ind' = ind + 1
                /\ pc' = "ind_visible"
                /\ result' = result
           ELSE /\ ind' = ind
                /\ pc' = "finally"
                /\ result' = ClassifyNoButton(result, FALSE)
        /\ indHit' = indHit
  /\ UNCHANGED << argVars, exc, sysCode, exitCode, sessionVars, pagesOpen,
                  driverVars, page, sel, button_found, firstVisible, nClicks,
                  matched, caught, closeInvoked, closeFailed, callEnd,
                  callExc >>

\* The finally clause and the end of the call: page.close() when a page was
\* created, then either `return result` or the pending exception leaves the
\* call.  A page.close() that raises replaces whatever was pending; the page
\* it failed to close may or may not be gone.
Finally ==
  /\ pc = "finally"
  /\ IF ClosesPage
     THEN \/ /\ pagesOpen' = pagesOpen - 1
             /\ closeInvoked' = TRUE
             /\ closeFailed' = FALSE
             /\ UNCHANGED << exc, interrupted >>
          \/ /\ \E e \in Thrown : Raise(e)
             /\ \E gone \in BOOLEAN :
                  pagesOpen' = IF gone THEN pagesOpen - 1 ELSE pagesOpen
             /\ closeInvoked' = TRUE
             /\ closeFailed' = TRUE
     ELSE UNCHANGED << pagesOpen, closeInvoked, closeFailed, exc, interrupted >>
  /\ IF exc'.type = "none"
     THEN /\ callEnd' = "returned"
          /\ callExc' = NoExc
          /\ pc' = "collect"
          /\ UNCHANGED frameVars
     ELSE /\ callEnd' = "raised"
          /\ callExc' = exc'
          /\ pc' = "exit_browser"
          /\ FrameDiscarded
  /\ UNCHANGED << argVars, sysCode, exitCode, sessionVars, driverVars, page >>

\* ------------------------------------------------- main, inside the with
\* print_summary, the failed_count and sys.exit(...), which raises
\* SystemExit inside the with block.
Summary ==
  /\ pc = "summary"
  /\ sysCode' = ExitCodeFor(results)
  /\ exc' = SystemExit
  /\ pc' = "exit_browser"
  /\ UNCHANGED << argVars, exitCode, sessionVars, pagesOpen, driverVars,
                  probeVars, interrupted >>

\* ------------------------------------------------- __exit__
\* `if self.browser: self.browser.close()`.  When close() raises, __exit__
\* is left at once and the new exception replaces the one in flight.
ExitBrowser ==
  /\ pc = "exit_browser"
  /\ IF self_browser
     THEN \/ /\ browserState' = "closed"
             /\ pc' = "exit_engine"
             /\ UNCHANGED << exc, interrupted >>
          \/ /\ \E e \in Thrown : Raise(e)
             /\ browserState' \in {"open", "closed"}
             /\ pc' = "handle"
     ELSE /\ pc' = "exit_engine"
          /\ UNCHANGED << browserState, exc, interrupted >>
  /\ UNCHANGED << argVars, sysCode, exitCode, self_playwright, self_browser,
                  engine, pagesOpen, driverVars, probeVars >>

\* `if hasattr(self, 'playwright'): self.playwright.stop()`.  __exit__
\* returns None, so the exception in flight goes on to main's handlers.
ExitEngine ==
  /\ pc = "exit_engine"
  /\ IF self_playwright
     THEN \/ /\ engine' = "stopped"
             /\ UNCHANGED << exc, interrupted >>
          \/ /\ \E e \in Thrown : Raise(e)
             /\ engine' \in {"running", "stopped"}
     ELSE UNCHANGED << engine, exc, interrupted >>
  /\ pc' = "handle"
  /\ UNCHANGED << argVars, sysCode, exitCode, self_playwright, self_browser,
                  browserState, pagesOpen, driverVars, probeVars >>

\* ------------------------------------------------- main: process exit
\* SystemExit is caught by neither handler and ends the process with its
\* code; KeyboardInterrupt and Exception both end in sys.exit(1).
Handle ==
  /\ pc = "handle"
  /\ exitCode' = IF exc.type = "SystemExit" THEN sysCode ELSE 1
  /\ pc' = "done"
  /\ UNCHANGED << argVars, exc, sysCode, sessionVars, pagesOpen, driverVars,
                  probeVars, interrupted >>

Next ==
  \/ ValidateUrl
  \/ EnterStart
  \/ EnterLaunch
  \/ Invoke
  \/ NewPage
  \/ SetDefaultTimeout
  \/ Goto
  \/ Settle
  \/ WakeIsVisible
  \/ WakeClick
  \/ WakeWait
  \/ IndIsVisible
  \/ Finally
  \/ Collect
  \/ Summary
  \/ ExitBrowser
  \/ ExitEngine
  \/ Handle

Spec == Init /\ [][Next]_vars

NextNorm == ValidateUrl

SpecNorm == InitNorm /\ [][NextNorm]_vars

\* ===================================================== properties
N == Len(valid_urls)

AllOk(rs) == \A k \in 1..Len(rs) : rs[k].status \in OkStatuses

ProbePcs ==
  {"new_page", "set_timeout", "goto", "settle", "wake_visible", "wake_click",
   "wake_wait", "ind_visible", "finally"}

HasScheme(u) ==
  \E p \in {HTTP, HTTPS} :
    /\ Len(u) >= Len(p)
    /\ \A j \in 1..Len(p) : u[j] = p[j]

\* C1: in every terminal state of main, every engine that was started has
\* been stopped and every browser that was launched has been closed (shown
\* already on the runs no user interrupt cuts).
C1_ReleaseOnEveryExit ==
  pc = "done" /\ ~interrupted =>
    (engine # "running" /\ browserState # "open")

\* C2: wake_up_app never raises to its caller because a browser operation
\* failed: on a run the user did not interrupt, no call ends by raising.
C2_NeverRaises ==
  callEnd = "raised" => interrupted

C4_ExactlyNProbes ==
  pc = "done" /\ self_browser /\ ~interrupted =>
    /\ invoked = valid_urls
    /\ Len(results) = N
    /\ \A k \in 1..Len(results) : results[k].url = valid_urls[k]
    /\ delays = N - 1

\* What the driver keeps on every run, aborted or not: the probes made so
\* far are a prefix of the URL list in order, one call at a time, each but
\* the first preceded by one delay, and a driver that returns has made N
\* probes and N-1 delays with record k the record of urls[k].
DriverOrderAndDelays ==
  /\ Len(invoked) = i
  /\ i <= N
  /\ invoked = SubSeq(valid_urls, 1, i)
  /\ Len(results) <= i
  /\ i <= Len(results) + 1
  /\ \A k \in 1..Len(results) : results[k].url = valid_urls[k]
  /\ (pc \in ProbePcs => (Len(results) = i - 1 /\ delays = i - 1))
  /\ (driverReturned =>
        (Len(invoked) = N /\ Len(results) = N /\ delays = N - 1))

\* C5 (as stated): once a wake-up selector is reported visible no later
\* wake-up selector is checked or clicked and no indicator is probed, and
\* the returned record is woken_up with success true.
C5_FirstVisibleWins ==
  /\ (firstVisible # 0 => (sel = firstVisible /\ indProbed = 0))
  /\ (callEnd = "returned" /\ firstVisible # 0 =>
        (result.status = "woken_up" /\ result.success))

\* C5 (amended): once a wake-up selector was reported visible and its click
\* and the 5-second wait both completed, the record is woken_up with success
\* true, no later wake-up selector is checked or clicked, no indicator is
\* probed, and the record is returned unchanged.
C5_FirstCompletedMatchWins ==
  matched # 0 =>
    /\ sel = matched
    /\ button_found
    /\ indProbed = 0
    /\ nClicks >= 1
    /\ result.status = "woken_up"
    /\ result.success

C5_Witness ==
  callEnd = "returned" /\ matched # 0 /\ firstVisible # 0 /\ firstVisible < matched

\* C6 (as stated): when a wake_up_app call has ended, no page it opened is
\* still open, and at most one page is open at any time (shown already on
\* the runs no user interrupt cuts).
C6_PageClosedAtCallEnd ==
  /\ pagesOpen <= 1
  /\ (callEnd # "none" /\ ~interrupted => pagesOpen = 0)

\* C6 (amended): on every path, page.close() has been invoked on the page the
\* call opened before the call ends; the page is closed whenever that close
\* completed, in particular whenever the call returns a record; at most one
\* page is open at any time.
C6_CloseInvokedAtCallEnd ==
  /\ pagesOpen <= 1
  /\ (pagesOpen = 1 => page)
  /\ (callEnd # "none" /\ page => closeInvoked)
  /\ (callEnd # "none" /\ ~closeFailed => pagesOpen = 0)
  /\ (callEnd = "returned" => pagesOpen = 0)
  /\ (pc \in {"loop", "summary"} => pagesOpen = 0)

C6_Witness ==
  /\ callEnd = "returned"
  /\ page
  /\ closeInvoked
  /\ caught.type = "Timeout"
  /\ pagesOpen = 0

\* C7 (as stated): a call in which a browser operation of the probe raised
\* a timeout or any other exception returns a record with status unknown,
\* success false and the timeout message or the exception's message.
C7_AnyExceptionIsUnknown ==
  callEnd = "returned" /\ raisedInProbe =>
    /\ result.status = "unknown"
    /\ ~result.success
    /\ result.message.kind \in {"Timeout after", "Error"}

\* C7 (amended): a timeout raised by new_page, set_default_timeout, goto or
\* the 3-second wait gives a returned record with status unknown, success
\* false and a message carrying the configured timeout in seconds; any other
\* exception raised by them gives status unknown, success false and a
\* message carrying the exception's text.
C7_CaughtExceptionIsUnknown ==
  callEnd = "returned" =>
    /\ (caught.type = "Timeout" =>
          /\ result.status = "unknown"
          /\ ~result.success
          /\ result.message.kind = "Timeout after"
          /\ result.message.secs = args_timeout)
    /\ (caught.type = "Error" =>
          /\ result.status = "unknown"
          /\ ~result.success
          /\ result.message.kind = "Error"
          /\ result.message.text = caught.text)

C7_Witness ==
  /\ callEnd = "returned"
  /\ caught.type = "Timeout"
  /\ args_timeout = 1
  /\ result.message.secs = 1

\* C8: with no wake-up selector reported visible, a visible indicator gives
\* already_awake with success true, and all four indicators probed with none
\* visible gives unclear with success false; in every record success is true
\* exactly when the status is woken_up or already_awake.
C8_IndicatorClassification ==
  /\ (callEnd = "returned" =>
        /\ (firstVisible = 0 /\ indHit # 0 =>
              (result.status = "already_awake" /\ result.success))
        /\ (firstVisible = 0 /\ indProbed = NumIndicators /\ indHit = 0 =>
              (result.status = "unclear" /\ ~result.success))
        /\ (result.success <=> result.status \in OkStatuses))
  /\ \A k \in 1..Len(results) :
       results[k].success <=> results[k].status \in OkStatuses

C8_Witness ==
  /\ callEnd = "returned"
  /\ firstVisible = 0
  /\ indHit = 3
  /\ result.status = "already_awake"

\* C9: a URL without http:// or https:// in front gets https:// prepended
\* exactly once, a URL with such a scheme is passed through unchanged,
\* normalizing a normalized URL changes nothing, and the normalized list
\* keeps the order and the length of the argument list.
C9_NormalizeUrls ==
  /\ Len(valid_urls) <= Len(args_urls)
  /\ (pc # "validate" => Len(valid_urls) = Len(args_urls))
  /\ \A k \in 1..Len(valid_urls) :
       /\ (HasScheme(args_urls[k]) => valid_urls[k] = args_urls[k])
       /\ (~HasScheme(args_urls[k]) =>
             /\ Len(valid_urls[k]) = Len(args_urls[k]) + Len(HTTPS)
             /\ SubSeq(valid_urls[k], 1, Len(HTTPS)) = HTTPS
             /\ SubSeq(valid_urls[k], Len(HTTPS) + 1, Len(valid_urls[k]))
                  = args_urls[k])
       /\ HasScheme(valid_urls[k])
       /\ Normalize(valid_urls[k]) = valid_urls[k]

C9_Witness ==
  /\ pc # "validate"
  /\ Len(valid_urls) = 2
  /\ HasScheme(args_urls[1])
  /\ valid_urls[1] = args_urls[1]
  /\ ~HasScheme(args_urls[2])
  /\ valid_urls[2] = HTTPS \o args_urls[2]

\* C10: within one wake_up_app call at most one click is performed, and a
\* call in which a click completed returns a record with status woken_up
\* and success true.
C10_OneClickThenWokenUp ==
  /\ nClicks <= 1
  /\ (callEnd = "returned" /\ nClicks >= 1 =>
        (result.status = "woken_up" /\ result.success))

====
